---- MODULE Spec2Model ----
(***************************************************************************)
(* Model of macos-netstat: the periodic network poller (main.py), its      *)
(* bounded history log (history.py) and the bandwidth-delta estimator      *)
(* (bandwidth.py), with the probes of network.py as environment inputs.    *)
(*                                                                         *)
(* Optional values (Python None / a value) are sets: {} is None and {v}    *)
(* is the value v.  A dict key that is absent is an absent record field.   *)
(***************************************************************************)
EXTENDS Integers, Sequences, FiniteSets, TLC

VARIABLES
    is_connected,      \* NetStatApp.is_connected
    current_latency,   \* NetStatApp.current_latency (optional int)
    is_paused,         \* NetStatApp.is_paused
    last_check_time,   \* NetStatApp.last_check_time (optional time)
    title,             \* NetStatApp.title (menu bar title)
    menu,              \* titles of the menu items that the handlers rewrite
    config,            \* Config._config, the keys the app reads
    max_entries,       \* HistoryLogger.max_entries
    history,           \* HistoryLogger._history
    history_file,      \* content of HISTORY_FILE on disk
    prev_stats,        \* bandwidth._prev_stats
    bw_ret,            \* value returned by the last get_bandwidth call
    bw_fresh,          \* no get_bandwidth call since start / last reset
    last,              \* the last operation executed and what it was given
    effects,           \* the side effects of the last handler, in code order
    appended,          \* kinds of the entries the app appended in this run
    notifications,     \* number of rumps.notification requests in this run
    alert,             \* message of the last rumps.alert shown (optional)
    config_file,       \* content of CONFIG_FILE on disk
    timer_interval,    \* interval of the rumps.Timer made by start_monitoring
    nOps               \* number of operations executed (bounded)

vars == <<is_connected, current_latency, is_paused, last_check_time, title,
          menu, config, max_entries, history, history_file, prev_stats,
          bw_ret, bw_fresh, last, effects, appended, notifications, alert,
          config_file, timer_interval, nOps>>

appVars  == <<is_connected, current_latency, is_paused, last_check_time,
              title, menu, config, alert, config_file, timer_interval>>
histVars == <<max_entries, history, history_file>>
bwVars   == <<prev_stats, bw_ret, bw_fresh>>
runVars  == <<effects, appended, notifications>>

-----------------------------------------------------------------------------
(* Bounds of the model                                                     *)

MaxOps      == 3   \* operations per run of the app
MaxHistOps  == 3   \* operations per run of a HistoryLogger
MaxBwOps    == 3   \* operations per run of the bandwidth estimator
MaxEntries  == 2   \* largest max_entries given to the HistoryLogger constructor
MaxFileLen  == 1   \* longest entry list found in the history file at start
MaxTime     == 2   \* clock readings are 1..MaxTime
MaxBytes    == 1   \* byte counters are 0..MaxBytes
MaxCfgOps   == 3   \* operations per run of the settings store

-----------------------------------------------------------------------------
(* Optional values                                                         *)

None       == {}
Some(v)    == {v}
Val(o)     == CHOOSE v \in o : TRUE

\* Python truthiness of an optional int: None and 0 are falsy
Truthy(o)  == o # {} /\ Val(o) # 0

Min(a, b)  == IF a < b THEN a ELSE b
Max(a, b)  == IF a > b THEN a ELSE b

\* time.time() readings; the wall clock may repeat a value or step backwards
Times      == 1 .. MaxTime
\* psutil.net_io_counters() readings
Bytes      == 0 .. MaxBytes
\* time.time() as the ticks of the app read it: two instants, so that a
\* tick finds the clock equal to, ahead of or behind the stored baseline
AppTimes   == {1, 2}
\* the counters as the ticks of the app read them: an idle interface (the
\* arithmetic on changing counters is explored in SpecBw)
AppBytes   == {0}
\* datetime.now().isoformat() as log_event reads it in the app: a text that
\* the program stores and prints and never computes with
AppStamps  == {1}

-----------------------------------------------------------------------------
(* history.py                                                              *)

MAX_HISTORY_ENTRIES == 100

\* Python's seq[-n:] for n >= 0: -0 is 0, so seq[-0:] is the whole list
PySliceLast_KeepFirst(s, n) ==
    SubSeq(s, 1, Min(n, Len(s)))

PySliceLast(s, n) ==
    IF n = 0 THEN s
    ELSE SubSeq(s, Max(Len(s) - n, 0) + 1, Len(s))

\* the dict built by log_event: optional keys are present only when given
NewEntry(stamp, event_type, latency, details) ==
    LET base == [timestamp |-> stamp, event |-> event_type]
        withL == IF latency # None
                 THEN [timestamp |-> stamp, event |-> event_type,
                       latency |-> Val(latency)]
                 ELSE base
    IN  IF details # None
        THEN IF latency # None
             THEN [timestamp |-> stamp, event |-> event_type,
                   latency |-> Val(latency), details |-> Val(details)]
             ELSE [timestamp |-> stamp, event |-> event_type,
                   details |-> Val(details)]
        ELSE withL

\* the trim test of log_event
OverCapacity(h, max) == Len(h) > max

\* HistoryLogger.log_event, the in-memory list
LogEventList(h, max, entry) ==
    LET a == Append(h, entry)
    IN  IF OverCapacity(a, max) THEN PySliceLast(a, max) ELSE a

\* the history file: absent, not parseable, or a JSON list of entries
FileAbsent    == [kind |-> "absent", data |-> <<>>]
FileMalformed == [kind |-> "malformed", data |-> <<>>]
FileList(h)   == [kind |-> "list", data |-> h]

\* HistoryLogger.load: what _history becomes for a given file
LoadList(file) ==
    IF file.kind = "list" THEN file.data ELSE <<>>

\* HistoryLogger.save: the file after open(HISTORY_FILE, "w") and json.dump.
\* "ok": written; "open_fails": open raises, the file is untouched;
\* "write_fails": the file was truncated and the dump broke off
SaveOutcomes == {"ok", "open_fails", "write_fails"}

SaveFile_Stale(file, h, outcome) ==
    CASE outcome = "ok"          ->
             FileList(IF h = <<>> THEN h ELSE SubSeq(h, 1, Len(h) - 1))
      [] outcome = "open_fails"  -> file
      [] outcome = "write_fails" -> FileMalformed

SaveFile(file, h, outcome) ==
    CASE outcome = "ok"          -> FileList(h)
      [] outcome = "open_fails"  -> file
      [] outcome = "write_fails" -> FileMalformed

\* arguments log_event is called with: event_type, latency, details
LogArgs ==
    { <<"connected", Some(0), Some(<<"WiFi", "home">>)>>,
      <<"disconnected", None, Some(<<"Connection lost">>)>>,
      <<"connected", None, None>> }

\* entries a history file may hold when the logger is constructed
FileEntries == { NewEntry(1, a[1], a[2], a[3]) : a \in LogArgs }

SeqsUpTo(S, n) == UNION { [1..k -> S] : k \in 0..n }

InitialFiles ==
    {FileAbsent, FileMalformed}
        \cup { FileList(h) : h \in SeqsUpTo(FileEntries, MaxFileLen) }

-----------------------------------------------------------------------------
(* network.py                                                              *)

\* outcome of requests.get(TEST_ENDPOINT, timeout=TIMEOUT): a status code,
\* or an exception (timeout, DNS, TCP, TLS: RequestException / OSError)
Responses == {"204", "200", "Timeout"}

\* int((end - start) * 1000) of a request that returned; start and end are
\* time.time() readings, and the wall clock may step back between them
Elapsed == {-30, 0, 120}

check_connection_AnyStatus(resp) == resp # "Timeout"

check_connection(resp) == resp = "204"

measure_latency(resp, elapsed) ==
    IF resp = "204" THEN Some(elapsed) ELSE None

\* every value measure_latency can return
MeasureLatencyResults ==
    { measure_latency(r, e) : r \in Responses, e \in Elapsed }

\* get_connection_info(): the keys the app reads
Infos ==
    { [type |-> "Unknown", ssid |-> None],
      [type |-> "WiFi", ssid |-> Some("home")] }

\* C20: after each log_event and each clear whose file write succeeds, the
\* history file holds exactly the in-memory history, same entries in the
\* same order, so that a load right afterwards reproduces the list, also
\* after an eviction
C20_SavedFileIsHistory ==
    [][ ( /\ last'.op \in {"log_event", "clear"}
          /\ last'.saved ) =>
            /\ history_file' = FileList(history')
            /\ LoadList(history_file') = history'
      ]_vars

\* a log_event that evicted the oldest entry and whose write succeeded
C20_Witness ==
    /\ last.op = "log_event"
    /\ last.saved
    /\ max_entries = 2
    /\ Len(history) = 2
    /\ history[1].timestamp # history[2].timestamp
    /\ history_file.kind = "list"
    /\ history_file.data = history
    /\ nOps >= 3

\* the last n entries of the stored log, newest first
NewestFirst(h, n) ==
    [i \in 1..Min(n, Len(h)) |-> h[Len(h) + 1 - i]]

\* C21: get_history(limit) returns, for every non-negative integer limit,
\* at most limit entries, namely the last limit stored entries newest
\* first; with no limit it returns the whole log reversed; the stored log
\* is never modified
C21_GetHistoryNewestFirst ==
    [][ last'.op = "get_history" =>
          LET res == Val(last'.result)
          IN  /\ history' = history
              /\ history_file' = history_file
              /\ last'.limit = None => res = NewestFirst(history, Len(history))
              /\ last'.limit # None =>
                     /\ Len(res) <= Val(last'.limit)
                     /\ res = NewestFirst(history, Val(last'.limit))
      ]_vars

-----------------------------------------------------------------------------
(* bandwidth.py                                                            *)

\* psutil.net_io_counters() and time.time() as read by one get_bandwidth call
Samples ==
    [bytes_sent : Bytes, bytes_recv : Bytes, timestamp : Times]

\* the first-call test of get_bandwidth
IsFirstCall_Never(prev) == FALSE

IsFirstCall(prev) == prev.timestamp = 0

\* a rate delta / time_delta / (1024 * 1024), kept as an exact fraction
Rate_PerSecond(delta, time_delta) ==
    [num |-> delta, den |-> time_delta]

Rate(delta, time_delta) ==
    [num |-> delta, den |-> time_delta * (1024 * 1024)]

\* the baseline left by the time_delta == 0 return: nothing is stored
ZeroDeltaBaseline_Store(prev, cur) == cur

ZeroDeltaBaseline(prev, cur) == prev

\* the baseline left by the counter-reset return: the current sample
ResetBaseline_Keep(prev, cur) == prev

ResetBaseline(prev, cur) == cur

\* get_bandwidth: the returned (download, upload) and the new _prev_stats
get_bandwidth(prev, cur) ==
    LET time_delta == cur.timestamp - prev.timestamp
        sent_delta == cur.bytes_sent - prev.bytes_sent
        recv_delta == cur.bytes_recv - prev.bytes_recv
    IN  IF IsFirstCall(prev)
        THEN [ret |-> <<None, None>>, prev |-> cur]
        ELSE IF time_delta = 0
        THEN [ret |-> <<None, None>>, prev |-> ZeroDeltaBaseline(prev, cur)]
        ELSE IF sent_delta < 0 \/ recv_delta < 0
        THEN [ret |-> <<None, None>>, prev |-> ResetBaseline(prev, cur)]
        ELSE [ret |-> << Some(Rate(recv_delta, time_delta)),
                         Some(Rate(sent_delta, time_delta)) >>,
              prev |-> cur]

\* format_speed: "N/A", or the unit the figure is shown in (speed < 1 is
\* shown in KB/s); the digits of the figure are not part of the state
format_speed(speed) ==
    IF speed = None THEN "N/A"
    ELSE LET r == Val(speed)
             lessThanOne == IF r.den > 0 THEN r.num < r.den
                                         ELSE r.num > r.den
         IN  IF lessThanOne THEN "KB/s" ELSE "MB/s"

\* the last operation: its name, and what it found and was given: the pause
\* flag and connection state at its start, whether the bandwidth baseline
\* was still the zero placeholder, the probe result it obtained, the entry
\* it logged and the counter sample it read (each optional)
Op(name) ==
    [op |-> name, was_paused |-> FALSE, was_connected |-> FALSE,
     was_fresh |-> FALSE, probe |-> None, entry |-> None, sample |-> None,
     saved |-> FALSE, key |-> None, value |-> None, raised |-> None,
     clicked |-> FALSE, text |-> None, resp |-> None, limit |-> None,
     result |-> None, remeasured |-> None]

NoOp == Op("init")

-----------------------------------------------------------------------------
(* State after the module globals and NetStatApp fields are initialised,   *)
(* shared by all specifications                                            *)

DEFAULT_CONFIG ==
    [check_interval |-> 5, notifications_enabled |-> TRUE,
     bandwidth_enabled |-> TRUE, auto_start |-> FALSE]

\* content of CONFIG_FILE: no file, text that is not JSON, a JSON document
\* that is not an object (an array, a number, null), or a JSON object
CfgAbsent       == [kind |-> "absent"]
CfgMalformed    == [kind |-> "malformed"]
CfgOther        == [kind |-> "other"]
CfgObject(data) == [kind |-> "object", data |-> data]

\* start_monitoring: interval = self.config.get("check_interval", 5)
TimerInterval(cfg) ==
    IF "check_interval" \in DOMAIN cfg THEN cfg.check_interval ELSE 5

ZeroStats == [bytes_sent |-> 0, bytes_recv |-> 0, timestamp |-> 0]

STATUS_CONNECTED    == "filled_circle"
STATUS_DISCONNECTED == "hollow_circle"
COLOR_GREEN         == "filled_circle"
COLOR_YELLOW        == "filled_circle"
COLOR_RED           == "hollow_circle"

InitMenu ==
    [status     |-> <<STATUS_DISCONNECTED, "Disconnected">>,
     latency    |-> None,
     bandwidth  |-> <<"--">>,
     connection |-> None,
     pause      |-> "Pause Monitoring"]

InitApp ==
    /\ is_connected = FALSE
    /\ current_latency = None
    /\ is_paused = FALSE
    /\ last_check_time = None
    /\ title = STATUS_DISCONNECTED
    /\ menu = InitMenu
    /\ alert = None

InitBandwidth ==
    /\ prev_stats = ZeroStats
    /\ bw_ret = <<None, None>>
    /\ bw_fresh = TRUE

InitRun ==
    /\ last = NoOp
    /\ effects = <<>>
    /\ appended = <<>>
    /\ notifications = 0
    /\ nOps = 0

-----------------------------------------------------------------------------
(* Specification of a HistoryLogger on its own: constructed with any       *)
(* max_entries over any history file, then log_event / clear / load        *)

InitHistory ==
    /\ max_entries \in 0 .. MaxEntries
    /\ history_file \in InitialFiles
    /\ history = LoadList(history_file)
    /\ config = DEFAULT_CONFIG
    /\ config_file = CfgAbsent
    /\ timer_interval = TimerInterval(config)
    /\ InitApp /\ InitBandwidth /\ InitRun

log_event(stamp, a, outcome) ==
    LET entry == NewEntry(stamp, a[1], a[2], a[3])
    IN  /\ history' = LogEventList(history, max_entries, entry)
        /\ history_file' = SaveFile(history_file, history', outcome)
        /\ last' = [Op("log_event") EXCEPT !.entry = Some(entry),
                                           !.saved = (outcome = "ok")]

HLogEvent ==
    /\ nOps < MaxHistOps
    /\ \E stamp \in Times, a \in LogArgs, outcome \in SaveOutcomes :
           log_event(stamp, a, outcome)
    /\ nOps' = nOps + 1
    /\ UNCHANGED <<appVars, bwVars, runVars, max_entries>>

HClear ==
    /\ nOps < MaxHistOps
    /\ history' = <<>>
    /\ \E outcome \in SaveOutcomes :
           /\ history_file' = SaveFile(history_file, history', outcome)
           /\ last' = [Op("clear") EXCEPT !.saved = (outcome = "ok")]
    /\ nOps' = nOps + 1
    /\ UNCHANGED <<appVars, bwVars, runVars, max_entries>>

HLoad ==
    /\ nOps < MaxHistOps
    /\ history' = LoadList(history_file)
    /\ last' = Op("load")
    /\ nOps' = nOps + 1
    /\ UNCHANGED <<appVars, bwVars, runVars, max_entries, history_file>>

\* list(reversed(s))
Reversed(s) == [i \in 1..Len(s) |-> s[Len(s) + 1 - i]]

\* HistoryLogger.get_history: `if limit:` is false for None and for 0
get_history(h, limit) ==
    IF limit # None /\ Val(limit) # 0
    THEN Reversed(PySliceLast(h, Val(limit)))
    ELSE Reversed(h)

\* the limits get_history is called with: none, or 0 .. MaxEntries + 1
Limits == {None} \cup { Some(n) : n \in 0 .. (MaxEntries + 1) }

HGetHistory ==
    /\ nOps < MaxHistOps
    /\ \E limit \in Limits :
          last' = [Op("get_history") EXCEPT
                       !.limit = limit,
                       !.result = Some(get_history(history, limit))]
    /\ nOps' = nOps + 1
    /\ UNCHANGED <<appVars, bwVars, runVars, histVars>>

NextHistory == HLogEvent \/ HClear \/ HLoad \/ HGetHistory

SpecHistory == InitHistory /\ [][NextHistory]_vars

-----------------------------------------------------------------------------
\* C2: after any sequence of HistoryLogger operations the in-memory history
\* holds at most max_entries entries, for every max_entries >= 0
C2_NeverOverCapacity == Len(history) <= max_entries

\* C3: log_event on a log holding exactly max_entries entries drops the
\* oldest entry (when there is one), keeps the others in order and puts the
\* new entry last; on a log holding fewer it only appends the new entry
C3_FifoEviction ==
    [][ last'.op = "log_event" =>
          LET e == Val(last'.entry)
          IN  /\ Len(history) = max_entries =>
                    history' = (IF history = <<>> THEN <<>> ELSE Tail(history))
                                   \o <<e>>
              /\ Len(history) < max_entries => history' = history \o <<e>>
      ]_vars

\* a full log of two distinct entries has just lost its oldest entry
C3_Witness ==
    /\ last.op = "log_event"
    /\ max_entries = 2
    /\ Len(history) = 2
    /\ history[1] # history[2]
    /\ nOps >= 3

-----------------------------------------------------------------------------
(* Specification of the bandwidth estimator on its own: the module is      *)
(* imported, then get_bandwidth / reset_bandwidth_stats in any order       *)

InitBw ==
    /\ max_entries = MAX_HISTORY_ENTRIES
    /\ history_file = FileAbsent
    /\ history = <<>>
    /\ config = DEFAULT_CONFIG
    /\ config_file = CfgAbsent
    /\ timer_interval = TimerInterval(config)
    /\ InitApp /\ InitBandwidth /\ InitRun

BGetBandwidth ==
    /\ nOps < MaxBwOps
    /\ \E cur \in Samples :
          LET r == get_bandwidth(prev_stats, cur)
          IN  /\ prev_stats' = r.prev
              /\ bw_ret' = r.ret
              /\ last' = [Op("get_bandwidth") EXCEPT !.sample = Some(cur),
                                                      !.was_fresh = bw_fresh]
    /\ bw_fresh' = FALSE
    /\ nOps' = nOps + 1
    /\ UNCHANGED <<appVars, histVars, runVars>>

reset_bandwidth_stats ==
    /\ prev_stats' = ZeroStats
    /\ bw_fresh' = TRUE

BReset ==
    /\ nOps < MaxBwOps
    /\ reset_bandwidth_stats
    /\ last' = Op("reset_bandwidth_stats")
    /\ nOps' = nOps + 1
    /\ UNCHANGED <<appVars, histVars, runVars, bw_ret>>

NextBw == BGetBandwidth \/ BReset

SpecBw == InitBw /\ [][NextBw]_vars

\* C10: the first get_bandwidth call after start or after
\* reset_bandwidth_stats returns (None, None) and stores the sample it read
\* as the baseline
C10_FirstCallBaseline ==
    [][ (last'.op = "get_bandwidth" /\ bw_fresh) =>
            /\ bw_ret' = <<None, None>>
            /\ prev_stats' = Val(last'.sample)
      ]_vars

\* a first call after a reset that followed an earlier sample, with
\* counters above zero: a rate against the zero placeholder would be positive
C10_Witness ==
    /\ last.op = "get_bandwidth"
    /\ last.was_fresh
    /\ nOps = 3
    /\ bw_ret = <<None, None>>
    /\ prev_stats.bytes_recv > 0
    /\ prev_stats.bytes_sent > 0
    /\ prev_stats.timestamp > 1

\* the sample read by the last get_bandwidth call
Cur == Val(last.sample)

\* C11: a get_bandwidth call at the timestamp of the stored baseline returns
\* (None, None) and leaves the baseline, counters and timestamp, as it was,
\* also when the counters have changed
C11_ZeroDeltaKeepsBaseline ==
    [][ ( /\ last'.op = "get_bandwidth"
          /\ ~bw_fresh
          /\ Val(last'.sample).timestamp = prev_stats.timestamp ) =>
            /\ bw_ret' = <<None, None>>
            /\ prev_stats' = prev_stats
      ]_vars

\* a call at the baseline's timestamp that read other counters
C11_Witness ==
    /\ last.op = "get_bandwidth"
    /\ ~last.was_fresh
    /\ Cur.timestamp = prev_stats.timestamp
    /\ Cur.bytes_sent # prev_stats.bytes_sent
    /\ Cur.bytes_recv # prev_stats.bytes_recv
    /\ bw_ret = <<None, None>>

\* C12 as stated: whenever a counter of the current sample is lower than
\* the baseline's, get_bandwidth returns (None, None) and replaces the
\* whole baseline with the current sample
C12_ResetAlwaysRebaselines ==
    [][ ( /\ last'.op = "get_bandwidth"
          /\ ~bw_fresh
          /\ \/ Val(last'.sample).bytes_sent < prev_stats.bytes_sent
             \/ Val(last'.sample).bytes_recv < prev_stats.bytes_recv ) =>
            /\ bw_ret' = <<None, None>>
            /\ prev_stats' = Val(last'.sample)
      ]_vars

\* C12 (amended): when a counter of the current sample is lower than the
\* baseline's and the sample's timestamp differs from the baseline's,
\* get_bandwidth returns (None, None) and replaces the whole baseline,
\* both counters and the timestamp, with the current sample
C12_ResetRebaselinesUnlessZeroDelta ==
    [][ ( /\ last'.op = "get_bandwidth"
          /\ ~bw_fresh
          /\ Val(last'.sample).timestamp # prev_stats.timestamp
          /\ \/ Val(last'.sample).bytes_sent < prev_stats.bytes_sent
             \/ Val(last'.sample).bytes_recv < prev_stats.bytes_recv ) =>
            /\ bw_ret' = <<None, None>>
            /\ prev_stats' = Val(last'.sample)
      ]_vars

\* the sent counter fell while the received counter rose, at a later time:
\* the baseline is the sample just read
C12_Witness ==
    /\ last.op = "get_bandwidth"
    /\ ~last.was_fresh
    /\ nOps >= 2
    /\ bw_ret = <<None, None>>
    /\ prev_stats = Cur
    /\ Cur.bytes_sent = 0
    /\ Cur.bytes_recv = 1
    /\ Cur.timestamp = 2

\* C13: for a stored baseline (sent1, recv1, t1) and a sample (sent2,
\* recv2, t2) with t2 > t1 and no counter lower, get_bandwidth returns
\* (download, upload) = ((recv2-recv1)/(t2-t1)/1048576,
\* (sent2-sent1)/(t2-t1)/1048576) and stores the sample as the new baseline
C13_RatesFromDeltas ==
    [][ ( /\ last'.op = "get_bandwidth"
          /\ ~bw_fresh
          /\ Val(last'.sample).timestamp > prev_stats.timestamp
          /\ Val(last'.sample).bytes_sent >= prev_stats.bytes_sent
          /\ Val(last'.sample).bytes_recv >= prev_stats.bytes_recv ) =>
            LET c  == Val(last'.sample)
                dt == c.timestamp - prev_stats.timestamp
            IN  /\ bw_ret' =
                     << Some([num |-> c.bytes_recv - prev_stats.bytes_recv,
                              den |-> dt * 1048576]),
                        Some([num |-> c.bytes_sent - prev_stats.bytes_sent,
                              den |-> dt * 1048576]) >>
                /\ prev_stats' = c
      ]_vars

\* rates were returned with download and upload different
C13_Witness ==
    /\ last.op = "get_bandwidth"
    /\ bw_ret[1] # None /\ bw_ret[2] # None
    /\ Val(bw_ret[1]).num = 1
    /\ Val(bw_ret[2]).num = 0
    /\ Val(bw_ret[1]).den > 0
    /\ prev_stats = Cur

\* C14: whenever get_bandwidth returns numeric rates, both are
\* non-negative, the time delta being above 0 wherever the division is
\* reached, for every sequence of counter samples and clock readings
C14_RatesNonNegative ==
    \A i \in 1..2 :
        bw_ret[i] # None =>
            /\ Val(bw_ret[i]).den > 0
            /\ Val(bw_ret[i]).num >= 0

-----------------------------------------------------------------------------
(* config.py: Config, and the settings dialog of main.py                   *)

Recognized == DOMAIN DEFAULT_CONFIG

\* values stored under a key the app does not know: a str, a list, a tuple
PyStr   == [t |-> "str",   items |-> <<"dark">>]
PyList  == [t |-> "list",  items |-> <<"a", "b">>]
PyTuple == [t |-> "tuple", items |-> <<"a", "b">>]

FreeValues == {PyStr, PyList, PyTuple}

\* json.dump of one value: the integers and booleans of the recognized keys
\* are written as JSON numbers and booleans; a str becomes a JSON string,
\* a list and a tuple both become a JSON array
ToJson(k, v) ==
    IF k \in Recognized
    THEN v
    ELSE [v EXCEPT !.t = IF @ = "str" THEN "string" ELSE "array"]

\* json.load of one value: a JSON array is read as a list
FromJson_ArrayAsTuple(k, j) ==
    IF k \in Recognized
    THEN j
    ELSE [j EXCEPT !.t = IF @ = "string" THEN "str" ELSE "tuple"]

FromJson(k, j) ==
    IF k \in Recognized
    THEN j
    ELSE [j EXCEPT !.t = IF @ = "string" THEN "str" ELSE "list"]

JsonDump(cfg) == [k \in DOMAIN cfg |-> ToJson(k, cfg[k])]

JsonLoad(data) == [k \in DOMAIN data |-> FromJson(k, data[k])]

\* {**d, **l}
Merge_LoadedOnly(d, l) == l

Merge(d, l) ==
    [k \in DOMAIN d \cup DOMAIN l |-> IF k \in DOMAIN l THEN l[k] ELSE d[k]]

\* self._config[key] = value
Put(cfg, k, v) ==
    [x \in DOMAIN cfg \cup {k} |-> IF x = k THEN v ELSE cfg[x]]

\* Config.load: the configuration it leaves and the exception it lets out.
\* The merge of a JSON document that is not an object raises TypeError,
\* which the except clause (JSONDecodeError, IOError) does not catch.
Config_load(cfg, file) ==
    CASE file.kind = "absent"    -> [config |-> cfg, raised |-> None]
      [] file.kind = "malformed" -> [config |-> DEFAULT_CONFIG,
                                     raised |-> None]
      [] file.kind = "object"    ->
             [config |-> Merge(DEFAULT_CONFIG, JsonLoad(file.data)),
              raised |-> None]
      [] file.kind = "other"     -> [config |-> cfg,
                                     raised |-> Some("TypeError")]

\* Config.save: the file it leaves; it returns True iff outcome = "ok"
Config_save(file, cfg, outcome) ==
    CASE outcome = "ok"          -> CfgObject(JsonDump(cfg))
      [] outcome = "open_fails"  -> file
      [] outcome = "write_fails" -> CfgMalformed

\* the in-memory configuration after the save that ends set, update and
\* reset: the change was made before save() is called and is never undone
AfterSave_Rollback(old, new, outcome) ==
    IF outcome = "ok" THEN new ELSE old

AfterSave(old, new, outcome) == new

\* Config.set
Config_set(k, v, outcome) ==
    /\ config' = AfterSave(config, Put(config, k, v), outcome)
    /\ config_file' = Config_save(config_file, config', outcome)

\* Config.update
Config_update(updates, outcome) ==
    /\ config' = AfterSave(config, Merge(config, updates), outcome)
    /\ config_file' = Config_save(config_file, config', outcome)

\* Config.reset
Config_reset(outcome) ==
    /\ config' = AfterSave(config, DEFAULT_CONFIG, outcome)
    /\ config_file' = Config_save(config_file, config', outcome)

\* int(response.text): surrounding blanks and one sign are accepted
Digits == <<"0", "1", "2", "3", "4", "5", "6", "7", "8", "9">>

IsDigit(c) == \E i \in 1..10 : Digits[i] = c

DigitVal(c) == (CHOOSE i \in 1..10 : Digits[i] = c) - 1

RECURSIVE Strip(_)
Strip(t) ==
    IF t = <<>> THEN t
    ELSE IF t[1] = " " THEN Strip(Tail(t))
    ELSE IF t[Len(t)] = " " THEN Strip(SubSeq(t, 1, Len(t) - 1))
    ELSE t

RECURSIVE DigitsVal(_)
DigitsVal(ds) ==
    IF ds = <<>> THEN 0
    ELSE DigitsVal(SubSeq(ds, 1, Len(ds) - 1)) * 10 + DigitVal(ds[Len(ds)])

ParseInt(text) ==
    LET t      == Strip(text)
        signed == t # <<>> /\ t[1] \in {"-", "+"}
        ds     == IF signed THEN Tail(t) ELSE t
    IN  IF ds # <<>> /\ \A i \in 1..Len(ds) : IsDigit(ds[i])
        THEN Some(IF signed /\ t[1] = "-" THEN 0 - DigitsVal(ds)
                  ELSE DigitsVal(ds))
        ELSE None

\* the range test of show_settings
InRange_UpTo61(interval) == 1 <= interval /\ interval <= 61

InRange(interval) == 1 <= interval /\ interval <= 60

\* texts typed into the settings window
Texts ==
    { <<"1", "0">>, <<"1">>, <<"6", "0">>, <<"0">>, <<"6", "1">>,
      <<"-", "3">>, <<"a", "b", "c">>, <<>>, <<" ", "7">>,
      <<"5", ".", "5">> }

\* the running timer after show_settings: nothing in the handler touches it
TimerAfterSettings_Apply(interval, cfg) == TimerInterval(cfg)

TimerAfterSettings(interval, cfg) == interval

\* whether show_settings accepts the dialog's answer
Accepted(clicked, text) ==
    /\ clicked
    /\ ParseInt(text) # None
    /\ InRange(Val(ParseInt(text)))

\* settings files found at start
InitialCfgFiles ==
    { CfgAbsent, CfgMalformed, CfgOther,
      CfgObject([check_interval |-> 10]),
      CfgObject([notifications_enabled |-> FALSE,
                 theme |-> ToJson("theme", PyStr)]) }

\* arguments of Config.set and Config.update
Intervals == {1, 10}

Updates ==
    { [check_interval |-> 10, auto_start |-> TRUE],
      [check_interval |-> 1, theme |-> PyTuple] }

\* Config(): defaults, then load
Config_init(file) == Config_load(DEFAULT_CONFIG, file)

InitConfig ==
    /\ config_file \in InitialCfgFiles
    /\ config = Config_init(config_file).config
    /\ timer_interval = TimerInterval(config)
    /\ last = [Op("Config") EXCEPT !.raised = Config_init(config_file).raised]
    /\ is_connected = FALSE
    /\ current_latency = None
    /\ is_paused = FALSE
    /\ last_check_time = None
    /\ title = STATUS_DISCONNECTED
    /\ menu = InitMenu
    /\ alert = None
    /\ max_entries = MAX_HISTORY_ENTRIES
    /\ history_file = FileAbsent
    /\ history = <<>>
    /\ InitBandwidth
    /\ effects = <<>>
    /\ appended = <<>>
    /\ notifications = 0
    /\ nOps = 0

cfgFrame == <<is_connected, current_latency, is_paused, last_check_time,
              title, menu, histVars, bwVars, runVars>>

CSet ==
    /\ nOps < MaxCfgOps
    /\ \E outcome \in SaveOutcomes :
          \/ \E v \in Intervals :
                /\ Config_set("check_interval", v, outcome)
                /\ last' = [Op("set") EXCEPT !.key = Some("check_interval"),
                                             !.value = Some(v),
                                             !.saved = (outcome = "ok")]
          \/ \E v \in FreeValues :
                /\ Config_set("theme", v, outcome)
                /\ last' = [Op("set") EXCEPT !.key = Some("theme"),
                                             !.value = Some(v),
                                             !.saved = (outcome = "ok")]
    /\ nOps' = nOps + 1
    /\ UNCHANGED <<cfgFrame, alert, timer_interval>>

CUpdate ==
    /\ nOps < MaxCfgOps
    /\ \E outcome \in SaveOutcomes, updates \in Updates :
          /\ Config_update(updates, outcome)
          /\ last' = [Op("update") EXCEPT !.value = Some(updates),
                                          !.saved = (outcome = "ok")]
    /\ nOps' = nOps + 1
    /\ UNCHANGED <<cfgFrame, alert, timer_interval>>

CReset ==
    /\ nOps < MaxCfgOps
    /\ \E outcome \in SaveOutcomes :
          /\ Config_reset(outcome)
          /\ last' = [Op("reset") EXCEPT !.saved = (outcome = "ok")]
    /\ nOps' = nOps + 1
    /\ UNCHANGED <<cfgFrame, alert, timer_interval>>

\* load() on the same object
CLoad ==
    /\ nOps < MaxCfgOps
    /\ config' = Config_load(config, config_file).config
    /\ last' = [Op("config_load") EXCEPT
                    !.raised = Config_load(config, config_file).raised]
    /\ nOps' = nOps + 1
    /\ UNCHANGED <<cfgFrame, alert, config_file, timer_interval>>

\* a newly constructed Config over the same file
CNew ==
    /\ nOps < MaxCfgOps
    /\ config' = IF Config_init(config_file).raised = None
                 THEN Config_init(config_file).config
                 ELSE config
    /\ last' = [Op("Config") EXCEPT
                    !.raised = Config_init(config_file).raised]
    /\ nOps' = nOps + 1
    /\ UNCHANGED <<cfgFrame, alert, config_file, timer_interval>>

\* NetStatApp.show_settings: the window, the validation, the store, the alert
show_settings ==
    /\ nOps < MaxCfgOps
    /\ \E clicked \in BOOLEAN, text \in Texts, outcome \in SaveOutcomes :
          /\ IF Accepted(clicked, text)
             THEN /\ Config_set("check_interval", Val(ParseInt(text)),
                                outcome)
                  /\ alert' = Some(<<"Settings Saved",
                                      <<Val(ParseInt(text))>> >>)
             ELSE /\ UNCHANGED <<config, config_file>>
                  /\ alert' = IF ~clicked THEN alert
                              ELSE IF ParseInt(text) = None
                              THEN Some(<<"Invalid Value",
                                          <<"not a number">> >>)
                              ELSE Some(<<"Invalid Value",
                                          <<"not within 1..60">> >>)
          /\ last' = [Op("show_settings") EXCEPT
                          !.clicked = clicked, !.text = Some(text),
                          !.saved = (Accepted(clicked, text)
                                         /\ outcome = "ok")]
    /\ timer_interval' = TimerAfterSettings(timer_interval, config')
    /\ nOps' = nOps + 1
    /\ UNCHANGED cfgFrame

\* the app is quit and started again: NetStatApp.__init__ builds the
\* settings store from the file and start_monitoring makes a new timer
Restart ==
    /\ nOps < MaxCfgOps
    /\ config' = Config_init(config_file).config
    /\ timer_interval' = TimerInterval(config')
    /\ alert' = None
    /\ last' = [Op("restart") EXCEPT
                    !.raised = Config_init(config_file).raised]
    /\ nOps' = nOps + 1
    /\ UNCHANGED <<cfgFrame, config_file>>

NextConfig ==
    CSet \/ CUpdate \/ CReset \/ CLoad \/ CNew \/ show_settings \/ Restart

SpecConfig == InitConfig /\ [][NextConfig]_vars

\* C16: show_settings writes check_interval to the settings store only when
\* the dialog was confirmed and the text parses as an integer within 1..60;
\* for 0, 61, a negative number, text that is no number, or a cancel, the
\* in-memory settings and the settings file stay as they were; so a
\* check_interval written through the dialog is within [1, 60]
C16_DialogWritesOnlyValid ==
    [][ last'.op = "show_settings" =>
          LET text  == Val(last'.text)
              n     == ParseInt(text)
              valid == /\ last'.clicked
                       /\ n # None
                       /\ 1 <= Val(n) /\ Val(n) <= 60
              kept  == config' = config /\ config_file' = config_file
          IN  /\ ~valid => kept
              /\ valid => config' = Put(config, "check_interval", Val(n))
              /\ ~kept => config'.check_interval \in 1..60
              /\ ( \/ ~last'.clicked
                   \/ text \in { <<"0">>, <<"6", "1">>, <<"-", "3">>,
                                 <<"a", "b", "c">>, <<>>,
                                 <<"5", ".", "5">> } ) => kept
              /\ (last'.clicked /\ text = <<"6", "0">>) =>
                     config'.check_interval = 60
              /\ (last'.clicked /\ text = <<"1">>) =>
                     config'.check_interval = 1
      ]_vars

\* the dialog was confirmed with 60 and the store wrote it to the file
C16_Witness ==
    /\ last.op = "show_settings"
    /\ last.clicked
    /\ last.text = Some(<<"6", "0">>)
    /\ last.saved
    /\ config.check_interval = 60
    /\ config_file.kind = "object"
    /\ config_file.data.check_interval = 60

\* C22: a check_interval saved through show_settings does not change the
\* period of the running timer: the timer keeps the interval read from the
\* settings at startup for the rest of the run, whatever is written to the
\* store, and a restart makes a timer with the interval the file then holds
C22_TimerKeepsStartupInterval ==
    [][ /\ last'.op # "restart" => timer_interval' = timer_interval
        /\ (last'.op = "restart" /\ config_file.kind = "object"
               /\ "check_interval" \in DOMAIN config_file.data) =>
              timer_interval' = config_file.data.check_interval
      ]_vars

\* the dialog saved 60 while the timer still runs with the startup value 5
C22_Witness ==
    /\ last.op = "show_settings"
    /\ last.saved
    /\ config.check_interval = 60
    /\ config_file.kind = "object"
    /\ config_file.data.check_interval = 60
    /\ timer_interval = 5

\* the configuration set, update or reset were asked to produce
Asked ==
    CASE last'.op = "set"    -> Put(config, Val(last'.key), Val(last'.value))
      [] last'.op = "update" -> Merge(config, Val(last'.value))
      [] last'.op = "reset"  -> DEFAULT_CONFIG

\* C23 as stated: set, update and reset apply their change in memory also
\* when the save fails; after a failed save the settings file still holds
\* what it held before
C23_FailedSaveKeepsOldFile ==
    [][ (last'.op \in {"set", "update", "reset"} /\ ~last'.saved) =>
            /\ config' = Asked
            /\ config_file' = config_file
      ]_vars

\* C23 (amended): set, update and reset apply their change in memory also
\* when the save fails, without rollback; after a failed save the settings
\* file holds what it held before when it could not be opened, and a
\* truncated text when the write failed after it was opened; a successful
\* save makes the file hold the in-memory configuration again
C23_NoRollbackOnFailedSave ==
    [][ last'.op \in {"set", "update", "reset"} =>
            /\ config' = Asked
            /\ ~last'.saved =>
                   config_file' \in {config_file, CfgMalformed}
            /\ last'.saved => config_file' = CfgObject(JsonDump(config'))
      ]_vars

\* a set whose save failed: memory has the new interval, the file the old
C23_Witness ==
    /\ last.op = "set"
    /\ ~last.saved
    /\ last.key = Some("check_interval")
    /\ config.check_interval = 1
    /\ config_file.kind = "object"
    /\ "check_interval" \in DOMAIN config_file.data
    /\ config_file.data.check_interval = 10

\* the configuration a reload gives: load() on the same object
Reloaded == Config_load(config, config_file).config

\* the configuration of a newly constructed Config
Fresh == Config_init(config_file).config

\* C17 as stated: after set(k, v) returned True, a reload (same object or a
\* new one) yields get(k) == v and every other key has the value it had
\* before the set; the same for each pair passed to update()
C17_SetReloadRoundTrip ==
    [][ /\ (last'.op = "set" /\ last'.saved) =>
              LET k == Val(last'.key)
                  v == Val(last'.value)
              IN  /\ Reloaded'[k] = v
                  /\ Fresh'[k] = v
                  /\ \A j \in DOMAIN config \ {k} :
                        Reloaded'[j] = config[j] /\ Fresh'[j] = config[j]
        /\ (last'.op = "update" /\ last'.saved) =>
              LET u == Val(last'.value)
              IN  /\ \A k \in DOMAIN u :
                        Reloaded'[k] = u[k] /\ Fresh'[k] = u[k]
                  /\ \A j \in DOMAIN config \ DOMAIN u :
                        Reloaded'[j] = config[j] /\ Fresh'[j] = config[j]
      ]_vars

\* what Python reads back from the JSON text of a value: the value itself,
\* except that a tuple comes back as a list of the same items
Back(k, v) ==
    IF k \in Recognized THEN v
    ELSE IF v.t = "tuple" THEN [t |-> "list", items |-> v.items]
    ELSE v

\* C17 (amended): after set(k, v) returned True, a reload (same object or a
\* new one) yields for k what JSON reads back for v, which is v itself for
\* booleans, integers, strings and lists and a list of the same items for a
\* tuple, and every other key has what JSON reads back for the value it had
\* before the set; the same for each pair passed to update()
C17_SetReloadJsonRoundTrip ==
    [][ /\ (last'.op = "set" /\ last'.saved) =>
              LET k == Val(last'.key)
                  v == Val(last'.value)
              IN  /\ Reloaded'[k] = Back(k, v)
                  /\ Fresh'[k] = Back(k, v)
                  /\ \A j \in DOMAIN config \ {k} :
                        /\ Reloaded'[j] = Back(j, config[j])
                        /\ Fresh'[j] = Back(j, config[j])
        /\ (last'.op = "update" /\ last'.saved) =>
              LET u == Val(last'.value)
              IN  /\ \A k \in DOMAIN u :
                        /\ Reloaded'[k] = Back(k, u[k])
                        /\ Fresh'[k] = Back(k, u[k])
                  /\ \A j \in DOMAIN config \ DOMAIN u :
                        /\ Reloaded'[j] = Back(j, config[j])
                        /\ Fresh'[j] = Back(j, config[j])
      ]_vars

\* a tuple was set and saved: the file holds an array, a reload gives a list
C17_Witness ==
    /\ last.op = "set"
    /\ last.saved
    /\ last.key = Some("theme")
    /\ Val(last.value) = PyTuple
    /\ config.theme = PyTuple
    /\ config_file.kind = "object"
    /\ config_file.data.theme.t = "array"
    /\ Reloaded.theme = PyList
    /\ Reloaded.check_interval = config.check_interval

\* C18: persistence failures are never fatal: whatever the settings file
\* holds (nothing, text that is not JSON, well-formed JSON of any shape),
\* no exception leaves Config.load or the constructor, and the
\* configuration it ends with has every recognized key
C18_PersistenceNeverFatal ==
    /\ last.raised = None
    /\ last.op \in {"config_load", "Config"} =>
           Recognized \subseteq DOMAIN config

\* C19: after Config.load of a file that holds a JSON object, every
\* recognized key absent from the file has its default value, every key in
\* the file, recognized or not, has the file's value, and no recognized key
\* is missing
C19_LoadMergesDefaults ==
    [][ ( /\ last'.op \in {"config_load", "Config"}
          /\ config_file.kind = "object" ) =>
            /\ Recognized \subseteq DOMAIN config'
            /\ \A k \in Recognized \ DOMAIN config_file.data :
                  config'[k] = DEFAULT_CONFIG[k]
            /\ \A k \in DOMAIN config_file.data :
                  config'[k] = FromJson(k, config_file.data[k])
      ]_vars

\* a load over a file without check_interval, after a set of check_interval
\* that could not be saved: the default is back, the unknown key is kept
C19_Witness ==
    /\ last.op = "config_load"
    /\ nOps >= 2
    /\ config_file.kind = "object"
    /\ "check_interval" \notin DOMAIN config_file.data
    /\ "theme" \in DOMAIN config_file.data
    /\ config.check_interval = 5
    /\ config.notifications_enabled = FALSE
    /\ config.theme = PyStr
    /\ config.auto_start = FALSE

-----------------------------------------------------------------------------
(* main.py: NetStatApp                                                     *)

\* the settings the app can start with (values read through Config.get)
Configs ==
    { [DEFAULT_CONFIG EXCEPT !.notifications_enabled = n,
                             !.bandwidth_enabled = b] : n, b \in BOOLEAN }

\* the pause gate at the top of check_status
IsGated_Never(paused) == FALSE

IsGated_Always(paused) == TRUE

IsGated(paused) == paused

\* self.config.get("notifications_enabled", True)
ShouldNotify_Always(cfg) == TRUE

ShouldNotify(cfg) == cfg.notifications_enabled

\* the latency kept at the end of a tick: measured again while connected,
\* cleared otherwise (old is the latency held before the tick)
TickLatency_KeepOld(connected, measured, old) ==
    IF connected THEN measured ELSE old

TickLatency(connected, measured, old) ==
    IF connected THEN measured ELSE None

\* the transition test of check_status
StateChanged_OnConnectOnly(was, now) == ~was /\ now

StateChanged(was, now) == was # now

\* the statements of one unpaused check_status that act on the world, in
\* the order the code executes them
TickStatements_CommitLast(was, R, notify) ==
    <<"check_connection">>
      \o (IF StateChanged(was, R)
          THEN (IF R THEN <<"measure_latency", "get_connection_info">>
                     ELSE <<>>)
                 \o <<"log_event">>
                 \o (IF notify THEN <<"notification">> ELSE <<>>)
          ELSE <<>>)
      \o <<"commit">>
      \o (IF R THEN <<"measure_latency">> ELSE <<>>)
      \o <<"update_ui">>

TickStatements(was, R, notify) ==
    <<"check_connection", "commit">>
      \o (IF StateChanged(was, R)
          THEN (IF R THEN <<"measure_latency", "get_connection_info">>
                     ELSE <<>>)
                 \o <<"log_event">>
                 \o (IF notify THEN <<"notification">> ELSE <<>>)
          ELSE <<>>)
      \o (IF R THEN <<"measure_latency">> ELSE <<>>)
      \o <<"update_ui">>

\* index of the first statement of kind k in stmts, 0 when there is none
First(stmts, k) ==
    IF \E i \in 1..Len(stmts) : stmts[i] = k
    THEN CHOOSE i \in 1..Len(stmts) :
            stmts[i] = k /\ \A j \in 1..(i-1) : stmts[j] # k
    ELSE 0

\* each statement with the value self.is_connected holds while it runs:
\* the old value up to the assignment, the probe result from then on
Trace(stmts, was, R) ==
    [ i \in 1..Len(stmts) |->
        [kind |-> stmts[i],
         S    |-> IF i < First(stmts, "commit") THEN was ELSE R] ]

\* details of a "connected" entry, from get_connection_info()
Details(info) ==
    IF info.ssid # None /\ Val(info.ssid) # ""
    THEN <<info.type, Val(info.ssid)>>
    ELSE <<info.type>>

\* _update_ui: the menu bar title
UiTitle(connected, latency) ==
    IF connected
    THEN IF Truthy(latency) /\ Val(latency) >= 100
         THEN COLOR_YELLOW ELSE COLOR_GREEN
    ELSE COLOR_RED

\* _update_ui: the menu items, given the bandwidth just sampled (optional:
\* None when bandwidth_enabled is off) and the connection info looked up
UiMenu(m, connected, latency, bw, info) ==
    [m EXCEPT
       !.status = IF connected THEN <<STATUS_CONNECTED, "Connected">>
                               ELSE <<STATUS_DISCONNECTED, "Disconnected">>,
       !.latency = latency,
       !.bandwidth = IF bw # None
                     THEN <<format_speed(Val(bw)[1]), format_speed(Val(bw)[2])>>
                     ELSE <<"Disabled">>,
       !.connection = IF connected THEN Some(Details(info)) ELSE None]

NoInfo == [type |-> "Unknown", ssid |-> None]

\* the history file found by NetStatApp.__init__, and how the writes of
\* the run end
AppInitialFiles == {FileAbsent}
AppSaveOutcomes == {"ok", "open_fails"}

\* check_status.  name: the operation that runs it; paused: self.is_paused
\* when it is called; menu0: the menu as the caller left it; withAlert:
\* the caller shows an alert afterwards (refresh_now)
check_status(name, paused, menu0, withAlert) ==
    LET op == [Op(name) EXCEPT !.was_paused = is_paused,
                               !.was_connected = is_connected]
        alertFx(S) == IF withAlert THEN <<[kind |-> "alert", S |-> S]>>
                                   ELSE <<>>
    IN
    IF IsGated(paused)
    THEN /\ last' = op
         /\ effects' = alertFx(is_connected)
         /\ menu' = menu0
         /\ UNCHANGED <<is_connected, current_latency, last_check_time,
                        title, histVars, bwVars, appended, notifications>>
    ELSE
      \* one reading of the clock and one snapshot of the interface per
      \* tick; each request to the endpoint has its own outcome
      \E t \in AppTimes, stamp \in AppStamps, resp \in Responses :
        LET was == is_connected
            R == check_connection(resp)
            changed == StateChanged(was, R)
            notify == ShouldNotify(config)
            bwOn == config.bandwidth_enabled
        IN
        \E info \in (IF R THEN Infos ELSE {NoInfo}),
           hl \in (IF changed /\ R THEN MeasureLatencyResults ELSE {None}),
           outcome \in (IF changed THEN AppSaveOutcomes ELSE {"ok"}),
           lat \in (IF R THEN MeasureLatencyResults ELSE {None}),
           sent \in (IF bwOn THEN AppBytes ELSE {0}),
           recv \in (IF bwOn THEN AppBytes ELSE {0}) :
          LET cur == [bytes_sent |-> sent, bytes_recv |-> recv,
                      timestamp |-> t]
          IN
          LET entry == IF R THEN NewEntry(stamp, "connected", hl,
                                          Some(Details(info)))
                            ELSE NewEntry(stamp, "disconnected", None,
                                          Some(<<"Connection lost">>))
              bw == get_bandwidth(prev_stats, cur)
          IN
          /\ last_check_time' = Some(t)
          /\ is_connected' = R
          \* _handle_state_change
          /\ IF changed
             THEN /\ history' = LogEventList(history, max_entries, entry)
                  /\ history_file' = SaveFile(history_file, history', outcome)
                  /\ appended' = Append(appended, entry.event)
                  /\ notifications' = IF notify THEN notifications + 1
                                                ELSE notifications
             ELSE UNCHANGED <<history, history_file, appended, notifications>>
          /\ max_entries' = max_entries
          /\ current_latency' = TickLatency(R, lat, current_latency)
          \* _update_ui
          /\ title' = UiTitle(R, current_latency')
          /\ IF bwOn
             THEN /\ prev_stats' = bw.prev
                  /\ bw_ret' = bw.ret
                  /\ bw_fresh' = FALSE
                  /\ menu' = UiMenu(menu0, R, current_latency',
                                    Some(bw.ret), info)
             ELSE /\ UNCHANGED bwVars
                  /\ menu' = UiMenu(menu0, R, current_latency', None, info)
          /\ last' = [op EXCEPT !.probe = Some(R), !.resp = Some(resp),
                                 !.remeasured = IF changed /\ R
                                                THEN Some(hl) ELSE None]
          /\ effects' = Trace(TickStatements(was, R, notify), was, R)
                            \o alertFx(R)

\* the rumps.Timer fires check_status
Tick ==
    /\ nOps < MaxOps
    /\ check_status("check_status", is_paused, menu, FALSE)
    /\ nOps' = nOps + 1
    /\ UNCHANGED <<is_paused, config, alert, config_file, timer_interval>>

\* menu item "Refresh Now"
refresh_now ==
    /\ nOps < MaxOps
    /\ check_status("refresh_now", is_paused, menu, TRUE)
    /\ alert' = Some(<<"Refresh Complete",
                       IF is_connected' THEN "Connected" ELSE "Disconnected">>)
    /\ nOps' = nOps + 1
    /\ UNCHANGED <<is_paused, config, config_file, timer_interval>>

\* menu item "Pause Monitoring" / "Resume Monitoring"
toggle_pause ==
    /\ nOps < MaxOps
    /\ is_paused' = ~is_paused
    /\ IF is_paused'
       THEN /\ menu' = [menu EXCEPT !.pause = "Resume Monitoring"]
            /\ title' = "pause_symbol"
            /\ last' = [Op("toggle_pause") EXCEPT !.was_paused = is_paused,
                                                 !.was_connected = is_connected]
            /\ effects' = <<>>
            /\ UNCHANGED <<is_connected, current_latency, last_check_time,
                           histVars, bwVars, appended, notifications>>
       ELSE check_status("toggle_pause", is_paused',
                         [menu EXCEPT !.pause = "Pause Monitoring"], FALSE)
    /\ nOps' = nOps + 1
    /\ UNCHANGED <<config, alert, config_file, timer_interval>>

\* NetStatApp.__init__ has run: settings and history loaded, state fields
\* set, bandwidth statistics reset by start_monitoring
Init ==
    /\ config \in Configs
    /\ config_file = CfgObject(JsonDump(config))
    /\ timer_interval = TimerInterval(config)
    /\ max_entries = MAX_HISTORY_ENTRIES
    /\ history_file \in AppInitialFiles
    /\ history = LoadList(history_file)
    /\ InitApp /\ InitBandwidth /\ InitRun

Next == Tick \/ refresh_now \/ toggle_pause

Spec == Init /\ [][Next]_vars

-----------------------------------------------------------------------------
(* Properties of the connection state tracker                              *)

\* number of statements of kind k in a trace of effects
Count(fx, k) == Cardinality({ i \in 1..Len(fx) : fx[i].kind = k })

\* index of the first statement of kind k in a trace, 0 when there is none
At(fx, k) ==
    IF Count(fx, k) = 0 THEN 0
    ELSE CHOOSE i \in 1..Len(fx) :
            fx[i].kind = k /\ \A j \in 1..(i-1) : fx[j].kind # k

KindOf(R) == IF R THEN "connected" ELSE "disconnected"

\* C1: a history entry is appended by exactly the unpaused ticks whose
\* probe result differs from the state held before the tick, its kind is
\* the new result, and the entries appended in a run alternate
\* connected / disconnected starting with connected
C1_EntryPerEdge ==
    /\ [][ IF last'.probe # None
           THEN LET R == Val(last'.probe)
                IN  IF R # is_connected
                    THEN /\ Len(history') = Len(history) + 1
                         /\ SubSeq(history', 1, Len(history)) = history
                         /\ history'[Len(history')].event = KindOf(R)
                         /\ appended' = Append(appended, KindOf(R))
                    ELSE history' = history /\ appended' = appended
           ELSE history' = history /\ appended' = appended
         ]_vars
    /\ [](\A i \in 1..Len(appended) :
            /\ appended[i] = (IF i % 2 = 1 THEN "connected" ELSE "disconnected")
            /\ history[Len(history) - Len(appended) + i].event = appended[i])

\* three ticks, the last two of them edges: connected then disconnected
C1_Witness ==
    /\ nOps = 3
    /\ last.op = "check_status"
    /\ appended = <<"connected", "disconnected">>

\* C4 as stated: the stored state still holds the old value while the
\* entry is appended and the notification is requested, and is committed
\* only after them
C4_CommitAfterEffects ==
    (last.probe # None /\ Val(last.probe) # last.was_connected) =>
        /\ effects[At(effects, "log_event")].S = last.was_connected
        /\ At(effects, "commit") > At(effects, "log_event")
        /\ At(effects, "commit") > At(effects, "notification")

\* C4 (amended): on a tick whose probe result R differs from the state S,
\* the stored state is set to R first; then come, in this order, the latency
\* re-measure and metadata lookup (when R is Connected), the history append
\* and the notification request, all of which run with the state already R
C4_CommitBeforeEffects ==
    (last.probe # None /\ Val(last.probe) # last.was_connected) =>
        LET R == Val(last.probe)
            c == At(effects, "commit")
            m == At(effects, "measure_latency")
            g == At(effects, "get_connection_info")
            l == At(effects, "log_event")
            n == At(effects, "notification")
        IN  /\ c > 0 /\ l > c
            /\ effects[c - 1].S = last.was_connected
            /\ R => (c < m /\ m < g /\ g < l)
            /\ ~R => (m = 0 /\ g = 0)
            /\ n # 0 => n > l
            /\ \A i \in c..Len(effects) : effects[i].S = R
            /\ is_connected = R

\* a transition to Connected that logged and notified
C4_Witness ==
    /\ last.probe = Some(TRUE)
    /\ ~last.was_connected
    /\ Count(effects, "log_event") = 1
    /\ Count(effects, "notification") = 1

\* C5: a transition requests one notification when notifications_enabled
\* is true and none when it is false, after appending one history entry;
\* a tick without transition requests none; so the notifications requested
\* never outnumber the entries appended
C5_NotifyPerTransition ==
    /\ [][ LET edge == last'.probe # None /\ Val(last'.probe) # is_connected
           IN  /\ notifications' - notifications =
                      (IF edge /\ config.notifications_enabled THEN 1 ELSE 0)
               /\ Count(effects', "notification")
                      = notifications' - notifications
               /\ Count(effects', "log_event") = (IF edge THEN 1 ELSE 0)
               /\ Len(appended') - Len(appended) = (IF edge THEN 1 ELSE 0)
               /\ Count(effects', "notification") = 1 =>
                      At(effects', "log_event") < At(effects', "notification")
         ]_vars
    /\ [](notifications <= Len(appended))

\* two transitions with notifications switched off, none requested
C5_Witness ==
    /\ ~config.notifications_enabled
    /\ Len(appended) = 2
    /\ notifications = 0

\* C6: the current latency is None whenever the state is Disconnected; a
\* tick that ends Connected measures the latency again and a tick that
\* ends Disconnected clears it
C6_LatencyOnlyWhileConnected ==
    /\ [](~is_connected => current_latency = None)
    /\ [][ last'.probe # None =>
             IF is_connected'
             THEN effects'[At(effects', "update_ui") - 1].kind
                      = "measure_latency"
             ELSE current_latency' = None /\ menu'.latency = None
         ]_vars

\* a tick went from Connected to Disconnected and left no latency
C6_Witness ==
    /\ last.probe = Some(FALSE)
    /\ last.was_connected
    /\ current_latency = None

\* C7: a timer tick while paused probes nothing and leaves the connection
\* state, latency, last-check time, history and bandwidth baseline as they
\* were; nothing is queued: the resume runs one tick, however many ticks
\* were skipped
C7_PausedTickSkipped ==
    [][ /\ (last'.op = "check_status" /\ is_paused) =>
              /\ last'.probe = None
              /\ effects' = <<>>
              /\ UNCHANGED <<is_connected, current_latency, last_check_time,
                             history, history_file, prev_stats, is_paused>>
        /\ (last'.op = "toggle_pause" /\ is_paused) =>
              Count(effects', "check_connection") = 1
      ]_vars

\* connected, then paused, then a timer tick that was skipped
C7_Witness ==
    /\ last.op = "check_status"
    /\ last.was_paused
    /\ is_connected
    /\ last.probe = None

\* C8: toggle_pause from paused to running runs exactly one full tick
\* (probe, state update with transition handling, UI refresh) before it
\* returns; from running to paused it runs no tick and changes only the
\* pause flag and the displayed titles
C8_ResumeRunsOneTick ==
    [][ last'.op = "toggle_pause" =>
          IF is_paused
          THEN /\ ~is_paused'
               /\ last'.probe # None
               /\ is_connected' = Val(last'.probe)
               /\ Count(effects', "check_connection") = 1
               /\ Count(effects', "commit") = 1
               /\ Count(effects', "update_ui") = 1
               /\ Count(effects', "log_event")
                     = (IF is_connected' # is_connected THEN 1 ELSE 0)
               /\ last_check_time' # None
               /\ menu'.status[2]
                     = (IF is_connected' THEN "Connected" ELSE "Disconnected")
               /\ menu'.pause = "Pause Monitoring"
          ELSE /\ is_paused'
               /\ last'.probe = None
               /\ effects' = <<>>
               /\ menu' = [menu EXCEPT !.pause = "Resume Monitoring"]
               /\ UNCHANGED <<is_connected, current_latency, last_check_time,
                              config, histVars, bwVars, appended,
                              notifications, alert>>
      ]_vars

\* a resume whose tick found the connection changed
C8_Witness ==
    /\ last.op = "toggle_pause"
    /\ last.was_paused
    /\ ~is_paused
    /\ last.probe = Some(TRUE)
    /\ ~last.was_connected
    /\ is_connected

\* C9: when refresh_now shows its alert, a fresh probe has been made during
\* that call, in every app state, and the status shown is that probe's
\* result
C9_RefreshAlwaysProbes ==
    last.op = "refresh_now" =>
        /\ last.probe # None
        /\ Count(effects, "check_connection") = 1
        /\ At(effects, "check_connection") < At(effects, "alert")
        /\ alert = Some(<<"Refresh Complete", 
                          IF Val(last.probe) THEN "Connected"
                                             ELSE "Disconnected">>)

\* C15: check_connection is True iff the request returned status 204; a
\* timeout, any other request or OS error and any other status give False
\* alike; measure_latency gives an integer number of milliseconds on a 204
\* response only and None otherwise; so a tick whose probe times out ends
\* Disconnected with the latency absent
C15_ProbeOutcome ==
    [][ last'.resp # None =>
          LET r == Val(last'.resp)
          IN  /\ is_connected' = (r = "204")
              /\ last'.probe = Some(r = "204")
              /\ r # "204" => current_latency' = None
              /\ current_latency' # None =>
                     r = "204" /\ Val(current_latency') \in Elapsed
              /\ r = "Timeout" =>
                     /\ ~is_connected'
                     /\ current_latency' = None
                     /\ title' = STATUS_DISCONNECTED
              /\ \A q \in Responses, e \in Elapsed :
                     /\ q = "204" => measure_latency(q, e) = Some(e)
                     /\ q # "204" => measure_latency(q, e) = None
      ]_vars

\* a connected app whose timer tick met a timeout
C15_Witness ==
    /\ last.op = "check_status"
    /\ last.resp = Some("Timeout")
    /\ last.was_connected
    /\ ~is_connected
    /\ current_latency = None
    /\ Len(history) >= 2

\* C24: every entry the state tracker appends with event "disconnected"
\* has no latency field; every "connected" entry has a latency field iff
\* the latency re-measure of that transition succeeded, and the field is
\* then the measured value, a non-negative integer (0 is recorded too)
C24_EntryLatencyField ==
    [][ Len(appended') = Len(appended) + 1 =>
          LET e == history'[Len(history')]
          IN  /\ e.event = "disconnected" => "latency" \notin DOMAIN e
              /\ e.event = "connected" =>
                     /\ ("latency" \in DOMAIN e)
                            <=> (Val(last'.remeasured) # None)
                     /\ "latency" \in DOMAIN e =>
                            /\ e.latency = Val(Val(last'.remeasured))
                            /\ e.latency >= 0
      ]_vars

====
